---------------------------- MODULE Spec2Model ----------------------------
(***************************************************************************)
(* A model of the Wordle library (src/src/lib.rs) and of its command-line  *)
(* runner (src/src/bin/wordle.rs).                                         *)
(*                                                                         *)
(* A string is a sequence of characters.  A character is one of the ASCII  *)
(* letters, the blank " ", the line feed "\n" (both whitespace, one byte), *)
(* or "e_acute" (U+00E9, a letter that UTF-8 encodes in two bytes).        *)
(* Rust's str::len counts bytes, str::chars counts characters.             *)
(* Rust indexes from 0, TLA+ sequences from 1: position idx of the code is *)
(* element idx + 1 of the sequence.                                        *)
(***************************************************************************)
EXTENDS Integers, Sequences, FiniteSets, TLC

VARIABLES
    guesses,     \* Wordle.guesses : the set of acceptable guesses
    answers,     \* Wordle.answers : the answer list (a sequence)
    word,        \* Wordle.word    : Option<&str>, None or Some(w)
    call,        \* the last library call made: [op, arg]
    result,      \* what that call returned (or the panic it ended in)
    pc,          \* main: the position in the game loop
    counter,     \* main: the number of games started
    i,           \* main: the guess number of the for loop, 1..=6
    chosen,      \* history: choose_word has been called at least once
    pre,         \* history: the fields of the session before the last call
    scored       \* history: the number of scored guesses of the current game

vars ==
    <<guesses, answers, word, call, result, pc, counter, i, chosen, pre, scored>>

----------------------------------------------------------------------------
(* Bounds of the model *)

\* the number of distinct ASCII letters the scored words are built from
NumLetters == 3
\* the longest answer list of a session
MaxAnswers == 2
\* the number of games the runner starts before the model stops it
MaxGames == 2

(* Program constants *)

\* the length guess() asserts of a guess and of the answer
WordLen == 5
\* the runner's guess budget per game: for i in 1..=6
GuessBudget == 6

----------------------------------------------------------------------------
(* Characters and strings *)

Alphabet == <<"a", "b", "c", "d", "e", "f", "g", "h">>
Letters == {Alphabet[k] : k \in 1..NumLetters}
Space == " "
Newline == "\n"
Wide == "e_acute"

\* char::is_whitespace, on the characters of the model
is_whitespace(c) == c \in {Space, Newline}

\* the number of bytes of the UTF-8 encoding of c
len_utf8(c) == IF c = Wide THEN 2 ELSE 1

RECURSIVE len(_)
\* str::len : the length of the string in BYTES
len(s) == IF s = <<>> THEN 0 ELSE len_utf8(Head(s)) + len(Tail(s))

\* str::split_whitespace().count() : the number of maximal runs of
\* non-whitespace characters
split_whitespace_count(s) ==
    Cardinality({k \in 1..Len(s) :
        /\ ~is_whitespace(s[k])
        /\ (k = 1 \/ is_whitespace(s[k - 1]))})

RECURSIVE trim_start(_)
trim_start(s) ==
    IF s # <<>> /\ is_whitespace(Head(s)) THEN trim_start(Tail(s)) ELSE s

RECURSIVE trim_end(_)
trim_end(s) ==
    IF s # <<>> /\ is_whitespace(s[Len(s)])
    THEN trim_end(SubSeq(s, 1, Len(s) - 1)) ELSE s

\* str::trim : the string without leading and trailing whitespace
trim(s) == trim_end(trim_start(s))

----------------------------------------------------------------------------
(* Option and the results of a call *)

None == <<>>
Some(w) == <<w>>
unwrap(o) == o[1]

Correct == "Correct"
InWord == "InWord"
NotInWord == "NotInWord"
LetterStatus == {Correct, InWord, NotInWord}

Ok(statuses) == [kind |-> "Ok", statuses |-> statuses, msg |-> ""]
Err == [kind |-> "Err", statuses |-> <<>>, msg |-> ""]
Panic(m) == [kind |-> "Panic", statuses |-> <<>>, msg |-> m]
Unit == [kind |-> "Unit", statuses |-> <<>>, msg |-> ""]

----------------------------------------------------------------------------
(* The scorer *)

\* letter_count that counts every letter of the word once
letter_count_once(w) == [c \in {w[k] : k \in 1..Len(w)} |-> 1]

\* letter_count! : the map from each letter of the word to its number of
\* occurrences (a u8: guess() counts a word of 5 bytes, which cannot
\* overflow it)
letter_count(w) ==
    [c \in {w[k] : k \in 1..Len(w)} |->
        Cardinality({k \in 1..Len(w) : w[k] = c})]

\* check_letter with the decrement of the remaining count left out
check_letter_no_claim(w, letter, idx, remaining) ==
    IF letter \in DOMAIN remaining
    THEN IF remaining[letter] = 0
         THEN [status |-> NotInWord, remaining |-> remaining]
         ELSE [status |-> IF letter = w[idx + 1] THEN Correct ELSE InWord,
               remaining |-> remaining]
    ELSE [status |-> NotInWord, remaining |-> remaining]

\* check_letter with the position compared one place too far to the right
check_letter_off_by_one(w, letter, idx, remaining) ==
    IF letter \in DOMAIN remaining
    THEN IF remaining[letter] = 0
         THEN [status |-> NotInWord, remaining |-> remaining]
         ELSE [status |-> IF idx + 2 <= Len(w) /\ letter = w[idx + 2]
                          THEN Correct ELSE InWord,
               remaining |-> [remaining EXCEPT ![letter] = @ - 1]]
    ELSE [status |-> NotInWord, remaining |-> remaining]

\* check_letter with a letter that is not in the word reported as InWord
check_letter_absent_in_word(w, letter, idx, remaining) ==
    IF letter \in DOMAIN remaining
    THEN IF remaining[letter] = 0
         THEN [status |-> NotInWord, remaining |-> remaining]
         ELSE [status |-> IF letter = w[idx + 1] THEN Correct ELSE InWord,
               remaining |-> [remaining EXCEPT ![letter] = @ - 1]]
    ELSE [status |-> InWord, remaining |-> remaining]

\* check_letter(word, letter, idx, remaining): the status of the letter at
\* position idx of the guess, and the remaining counts after the call.
\* "Panic" stands for the failed assert!(idx < 5) and for the unwrap of
\* word.chars().nth(idx) when the word has no character at idx.
check_letter(w, letter, idx, remaining) ==
    IF ~(idx < 5)
    THEN [status |-> "Panic", remaining |-> remaining]
    ELSE IF letter \in DOMAIN remaining
    THEN IF remaining[letter] = 0
         THEN [status |-> NotInWord, remaining |-> remaining]
         ELSE IF idx + 1 > Len(w)
         THEN [status |-> "Panic",
               remaining |-> [remaining EXCEPT ![letter] = @ - 1]]
         ELSE [status |-> IF letter = w[idx + 1] THEN Correct ELSE InWord,
               remaining |-> [remaining EXCEPT ![letter] = @ - 1]]
    ELSE [status |-> NotInWord, remaining |-> remaining]

RECURSIVE score_loop(_, _, _, _, _)
\* the for loop of guess(): positions idx, idx + 1, ... of the guess g are
\* checked in turn against answer, each with the counts the previous call
\* left; statuses is the array filled so far
score_loop(answer, g, idx, remaining, statuses) ==
    IF idx >= Len(g)
    THEN Ok(statuses)
    ELSE LET r == check_letter(answer, g[idx + 1], idx, remaining)
         IN  IF r.status = "Panic"
             THEN Panic("check_letter")
             ELSE score_loop(answer, g, idx + 1, r.remaining,
                             [statuses EXCEPT ![idx + 1] = r.status])

\* Wordle::guess(&self, word), as a function of the fields it reads
guess(self_guesses, self_word, w) ==
    IF split_whitespace_count(w) # 1
    THEN Panic("Guess cannot contain whitespace characters")
    ELSE IF len(w) # WordLen
    THEN Panic("Guess must have exactly 5 characters")
    ELSE IF self_word = None
    THEN Panic("Game not initialized")
    ELSE IF len(unwrap(self_word)) # WordLen
    THEN Panic("Answer must have exactly 5 characters")
    ELSE IF w \in self_guesses
    THEN score_loop(unwrap(self_word), w, 0,
                    letter_count(unwrap(self_word)),
                    [k \in 1..5 |-> NotInWord])
    ELSE Err

----------------------------------------------------------------------------
(* The words the sessions of the model are built from *)

W_aabcc == <<"a", "a", "b", "c", "c">>
W_baacc == <<"b", "a", "a", "c", "c">>
W_ccaba == <<"c", "c", "a", "b", "a">>
W_abcba == <<"a", "b", "c", "b", "a">>
\* shorter and longer than 5, and empty
M_abc == <<"a", "b", "c">>
M_aabccc == <<"a", "a", "b", "c", "c", "c">>
M_empty == <<>>
\* 5 bytes with a leading blank, and with a blank inside
M_lead == <<Space, "a", "b", "c", "c">>
M_inner == <<"a", "b", Space, "c", "c">>
\* 5 characters in 6 bytes, and 4 characters in 5 bytes
M_wide5 == <<Wide, "a", "b", "c", "c">>
M_wide4 == <<Wide, "a", "b", "c">>

\* the words an answer list is drawn from: 5 ASCII letters each
AnswerPool == {W_aabcc, W_baacc}
\* the words a guess list is drawn from: new() takes any list
GuessPool == {W_aabcc, W_baacc, W_ccaba, M_lead, M_wide4, M_abc}
\* the strings a caller passes to guess()
InputPool ==
    {W_aabcc, W_baacc, W_ccaba, W_abcba, M_abc, M_aabccc, M_empty,
     M_lead, M_inner, M_wide5, M_wide4}

\* the non-empty sequences of at most n elements of S
SeqsUpTo(S, n) == UNION {[1..m -> S] : m \in 1..n}

----------------------------------------------------------------------------
(* The session: Wordle::new, choose_word, guess *)

\* the session fields as a record
Fields == [word |-> word, guesses |-> guesses, answers |-> answers]

\* Wordle::new(guesses, answers): both lists are non-empty (the asserts),
\* the guesses are collected into a set, no word is selected
new(guess_list, answer_list) ==
    /\ guess_list # {}
    /\ answer_list # <<>>
    /\ guesses = guess_list
    /\ answers = answer_list
    /\ word = None

\* what every specification starts from besides the session
Fresh ==
    /\ call = [op |-> "new", arg |-> <<>>]
    /\ result = Unit
    /\ pc = "lib"
    /\ counter = 0
    /\ i = 0
    /\ chosen = FALSE
    /\ pre = [word |-> None, guesses |-> {}, answers |-> <<>>]
    /\ scored = 0

Init ==
    /\ \E gl \in SUBSET GuessPool, al \in SeqsUpTo(AnswerPool, MaxAnswers) :
           new(gl, al)
    /\ Fresh

\* Wordle::choose_word: the values self.word can take, one per element the
\* random source can pick from the answer list
choose_word(self_answers) ==
    {Some(self_answers[k]) : k \in 1..Len(self_answers)}

\* a call of choose_word on the session
ChooseWord ==
    /\ result.kind # "Panic"
    /\ word' \in choose_word(answers)
    /\ call' = [op |-> "choose_word", arg |-> <<>>]
    /\ result' = Unit
    /\ chosen' = TRUE
    /\ pre' = Fields
    /\ UNCHANGED <<guesses, answers, pc, counter, i, scored>>

\* a call of guess(w) that forgets the word when it rejects the guess
Guess_forgets(w) ==
    /\ result.kind # "Panic"
    /\ result' = guess(guesses, word, w)
    /\ word' = IF result'.kind = "Err" THEN None ELSE word
    /\ call' = [op |-> "guess", arg |-> w]
    /\ pre' = Fields
    /\ UNCHANGED <<guesses, answers, pc, counter, i, chosen, scored>>

\* a call of guess(w) on the session: it takes &self, no field changes
Guess(w) ==
    /\ result.kind # "Panic"
    /\ result' = guess(guesses, word, w)
    /\ call' = [op |-> "guess", arg |-> w]
    /\ pre' = Fields
    /\ UNCHANGED <<guesses, answers, word, pc, counter, i, chosen, scored>>

Next ==
    \/ ChooseWord
    \/ \E w \in InputPool : Guess(w)

Spec == Init /\ [][Next]_vars

----------------------------------------------------------------------------
(* Claims about the session *)

\* a guess of the shape the claims call well-formed: 5 characters, none of
\* them whitespace
WellFormed(w) == Len(w) = 5 /\ \A k \in 1..Len(w) : ~is_whitespace(w[k])

\* the elements of a sequence
Range(s) == {s[k] : k \in 1..Len(s)}

\* C3: a guess() call with a well-formed word that is not in the guesses
\* vocabulary, on a session with a secret, returns InvalidGuess (Err) and
\* leaves the secret and both vocabularies as they were before the call.
C3_InvalidGuessKeepsSession ==
    (/\ call.op = "guess"
     /\ WellFormed(call.arg)
     /\ call.arg \notin pre.guesses
     /\ pre.word # None)
    => (result = Err /\ Fields = pre)

\* C3 for the well-formed words of 5 bytes (ASCII letters only): the part
\* of the claim the byte count of len() does not reach
C3_AsciiInvalidGuessKeepsSession ==
    (/\ call.op = "guess"
     /\ WellFormed(call.arg)
     /\ len(call.arg) = 5
     /\ call.arg \notin pre.guesses
     /\ pre.word # None)
    => (result = Err /\ Fields = pre)

\* C6: the secret is absent only if choose_word was never called, and is
\* otherwise an element of the answers sequence; a step that changes the
\* secret is a choose_word call, so no guess() call changes it.
C6_SecretSetOnlyByChooseWord ==
    /\ [](word = None => ~chosen)
    /\ [](word # None => unwrap(word) \in Range(answers))
    /\ [][word' # word => call'.op = "choose_word"]_vars
    /\ [][call'.op = "guess" => word' = word]_vars

\* a state where guess() calls, one rejected, have followed choose_word and
\* the secret is still the chosen element of the answers
C6_Witness ==
    /\ chosen
    /\ call.op = "guess"
    /\ result = Err
    /\ word # None
    /\ unwrap(word) \in Range(answers)

\* C7: guess() with a well-formed word on a session on which choose_word
\* was never called ends in the panic "Game not initialized", whether or
\* not the word is in the guesses vocabulary.
C7_GuessBeforeChooseWordPanics ==
    (call.op = "guess" /\ ~chosen /\ WellFormed(call.arg))
    => result = Panic("Game not initialized")

\* C7 for the well-formed words of 5 bytes (ASCII letters only)
C7_AsciiGuessBeforeChooseWordPanics ==
    (call.op = "guess" /\ ~chosen /\ WellFormed(call.arg) /\ len(call.arg) = 5)
    => result = Panic("Game not initialized")

\* a guess of a malformed shape: not 5 characters (the empty string too),
\* or with a whitespace character in it
Malformed(w) == Len(w) # 5 \/ \E k \in 1..Len(w) : is_whitespace(w[k])

\* C10: guess() with a malformed word ends in a panic and returns neither
\* InvalidGuess nor a score, in or out of the vocabulary, secret or none.
C10_MalformedGuessPanics ==
    (call.op = "guess" /\ Malformed(call.arg)) => result.kind = "Panic"

----------------------------------------------------------------------------
(* The scorer on every secret and guess of 5 letters *)

\* the words of 5 letters over the letters of the model
Words5 == [1..WordLen -> Letters]

\* a session whose only answer is S and whose only guess is G
ScoreInit ==
    /\ \E S \in Words5, G \in Words5 : new({G}, <<S>>)
    /\ Fresh

\* a round: choose_word, then guess() with the words of the vocabulary
ScoreNext ==
    \/ ChooseWord
    \/ \E w \in guesses : chosen /\ Guess(w)

ScoreSpec == ScoreInit /\ [][ScoreNext]_vars

----------------------------------------------------------------------------
(* The runner: main of src/bin/wordle.rs *)

\* the words of the runner's guess list: read_word_list trims every line
CliGuessPool == {W_aabcc, W_baacc, W_ccaba}

\* what read_line can return: a typed line with its line feed, blanks
\* around the word, or the empty string at the end of the input
CliLines ==
    {w \o <<Newline>> :
        w \in {W_aabcc, W_baacc, W_ccaba, W_abcba, M_abc, M_inner, M_wide5}}
    \cup {<<Space>> \o W_aabcc \o <<Space, Newline>>, <<>>}

AllCorrect == [k \in 1..5 |-> Correct]

\* main up to the game loop: the lists are read and the session is built
CliInit ==
    /\ \E gl \in SUBSET CliGuessPool, al \in SeqsUpTo(AnswerPool, MaxAnswers) :
           new(gl, al)
    /\ call = [op |-> "new", arg |-> <<>>]
    /\ result = Unit
    /\ pc = "choose"
    /\ counter = 0
    /\ i = 0
    /\ chosen = FALSE
    /\ pre = [word |-> None, guesses |-> {}, answers |-> <<>>]
    /\ scored = 0

\* the head of the outer loop: choose_word, count the game, enter the for
\* loop with guess number 1
StartGame ==
    /\ pc = "choose"
    /\ counter < MaxGames
    /\ word' \in choose_word(answers)
    /\ counter' = counter + 1
    /\ i' = 1
    /\ pc' = "prompt"
    /\ call' = [op |-> "choose_word", arg |-> <<>>]
    /\ result' = Unit
    /\ chosen' = TRUE
    /\ pre' = Fields
    /\ scored' = 0
    /\ UNCHANGED <<guesses, answers>>

\* ReadGuess where a rejected guess moves on to the next guess number
ReadGuess_consumes(line) ==
    /\ pc = "prompt"
    /\ result' = guess(guesses, word, trim(line))
    /\ call' = [op |-> "guess", arg |-> trim(line)]
    /\ pre' = Fields
    /\ pc' = CASE result'.kind = "Panic" -> "aborted"
              [] result'.kind = "Err" -> "prompt"
              [] OTHER -> "scored"
    /\ i' = IF result'.kind = "Err" /\ i < GuessBudget THEN i + 1 ELSE i
    /\ scored' = IF result'.kind = "Ok" THEN scored + 1 ELSE scored
    /\ UNCHANGED <<guesses, answers, word, counter, chosen>>

\* one turn of the inner loop: a line is read, trimmed and passed to
\* guess(); a panic ends the process, an Err prompts again for the same
\* guess number, an Ok leaves the inner loop with the score
ReadGuess(line) ==
    /\ pc = "prompt"
    /\ result' = guess(guesses, word, trim(line))
    /\ call' = [op |-> "guess", arg |-> trim(line)]
    /\ pre' = Fields
    /\ pc' = CASE result'.kind = "Panic" -> "aborted"
              [] result'.kind = "Err" -> "prompt"
              [] OTHER -> "scored"
    /\ scored' = IF result'.kind = "Ok" THEN scored + 1 ELSE scored
    /\ UNCHANGED <<guesses, answers, word, counter, i, chosen>>

\* the rest of the for body: the score is printed; an all-Correct score
\* breaks out of the for loop, any other goes on to the next guess number,
\* and after guess number 6 the for loop ends
CheckGameOver ==
    /\ pc = "scored"
    /\ IF result.statuses = AllCorrect
       THEN pc' = "choose" /\ i' = i
       ELSE IF i < GuessBudget
       THEN pc' = "prompt" /\ i' = i + 1
       ELSE pc' = "choose" /\ i' = i
    /\ UNCHANGED <<guesses, answers, word, call, result, counter, chosen,
                   pre, scored>>

CliNext ==
    \/ StartGame
    \/ \E line \in CliLines : ReadGuess(line)
    \/ CheckGameOver

CliSpec == CliInit /\ [][CliNext]_vars

\* C9: in the game loop a rejected guess leaves the guess number, the count
\* of scored guesses and the secret as they are and prompts again; the
\* guess number advances by one, and only after a scored guess; a game
\* scores at most 6 guesses; the game ends, and choose_word is the next
\* call, exactly when the scored guess is all-Correct or is the 6th; the
\* secret changes only when a game starts.
C9_RejectedGuessKeepsBudget ==
    /\ [][(pc = "prompt" /\ result'.kind = "Err")
            => (i' = i /\ scored' = scored /\ pc' = "prompt" /\ word' = word)]_vars
    /\ [][i' # i => \/ (pc = "scored" /\ i' = i + 1)
                    \/ (pc = "choose" /\ i' = 1)]_vars
    /\ [](pc = "prompt" => scored = i - 1)
    /\ [](pc = "scored" => scored = i /\ result.kind = "Ok")
    /\ [](scored <= GuessBudget)
    /\ [][pc = "scored"
            => (pc' = "choose"
                <=> (result.statuses = AllCorrect \/ scored = GuessBudget))]_vars
    /\ [][(pc # "choose" /\ pc' = "choose") => pc = "scored"]_vars
    /\ [][pc = "choose" => call'.op = "choose_word"]_vars
    /\ [][word' # word => pc = "choose"]_vars

\* guess number 6 has been prompted for, 5 guesses are scored, and a guess
\* has just been rejected: the prompt is still the one for guess number 6
C9_Witness ==
    /\ pc = "prompt"
    /\ call.op = "guess"
    /\ result = Err
    /\ i = GuessBudget
    /\ scored = GuessBudget - 1

----------------------------------------------------------------------------
(* Claims about the scorer *)

\* the last call was a guess() that returned a score
Scored == call.op = "guess" /\ result.kind = "Ok"
\* the secret S and the guess G of that call
S == unwrap(pre.word)
G == call.arg

\* the number of occurrences of letter c in w
Count(c, w) == Cardinality({k \in 1..Len(w) : w[k] = c})
\* the number of occurrences of c in w at the positions before k
CountBefore(c, w, k) == Cardinality({j \in 1..(k - 1) : w[j] = c})
\* the positions of the guess that hold c and are marked Correct or InWord
Marked(c) ==
    {k \in 1..Len(G) : G[k] = c /\ result.statuses[k] \in {Correct, InWord}}

\* C1: for every letter L, the number of positions of the guess that hold
\* L and are marked Correct or InWord is at most the number of occurrences
\* of L in the secret.
C1_MarksBoundedByOccurrences ==
    Scored => \A L \in Range(G) : Cardinality(Marked(L)) <= Count(L, S)

\* a scored guess that holds a letter more often than the secret does, the
\* secret holding it at least once
C1_Witness ==
    /\ Scored
    /\ \E L \in Range(G) :
          /\ 0 < Count(L, S)
          /\ Count(L, S) < Count(L, G)
          /\ Cardinality(Marked(L)) = Count(L, S)

\* C2: every position of the guess that holds the letter the secret holds
\* at that position is marked Correct.
C2_MatchingPositionIsCorrect ==
    Scored => \A k \in 1..Len(G) : G[k] = S[k] => result.statuses[k] = Correct

\* C4: a guess equal to the secret is scored, every position Correct.
C4_ExactGuessAllCorrect ==
    (call.op = "guess" /\ pre.word = Some(G))
    => result = Ok([k \in 1..5 |-> Correct])

\* the secret, with a letter repeated, has been guessed exactly
C4_Witness ==
    /\ Scored
    /\ G = S
    /\ \E c \in Range(S) : Count(c, S) >= 2
    /\ result.statuses = [k \in 1..5 |-> Correct]

\* C5: every position of the guess whose letter does not occur in the
\* secret is marked NotInWord.
C5_AbsentLetterNotInWord ==
    Scored =>
        \A k \in 1..Len(G) : G[k] \notin Range(S) => result.statuses[k] = NotInWord

\* a scored guess that shares no letter with the secret
C5_Witness ==
    /\ Scored
    /\ Range(G) \cap Range(S) = {}
    /\ result.statuses = [k \in 1..5 |-> NotInWord]

\* the stateless reference of C8: the status of position k of guess g
\* against secret s
Reference(s, g, k) ==
    IF CountBefore(g[k], g, k) >= Count(g[k], s) THEN NotInWord
    ELSE IF g[k] = s[k] THEN Correct
    ELSE InWord

\* C8: a guess of 5 letters from the vocabulary, against a secret of 5
\* letters, is scored and the status of every position is the one the
\* stateless reference gives.
C8_ScanEqualsReference ==
    (call.op = "guess" /\ pre.word # None)
    => /\ result.kind = "Ok"
       /\ \A k \in 1..5 : result.statuses[k] = Reference(S, G, k)

\* a scored guess with a position of each status, the NotInWord one
\* holding a letter of the secret whose occurrences were claimed before
C8_Witness ==
    /\ Scored
    /\ \E k \in 1..5 : result.statuses[k] = Correct
    /\ \E k \in 1..5 : result.statuses[k] = InWord
    /\ \E k \in 1..5 :
          /\ result.statuses[k] = NotInWord
          /\ G[k] \in Range(S)

=============================================================================
